---------------------------- MODULE Spec2Model ----------------------------
(***************************************************************************)
(* kustomize-graphing: traversal of kustomization overlays (cmd/main.go)   *)
(* and the membership helper (pkg/util/contain.go).                        *)
(*                                                                         *)
(* Representation of path strings: a cleaned slash-separated path is the   *)
(* sequence of its segments; the strings "." and "" are both the empty     *)
(* sequence <<>>.  Directory paths handed to readDir are kept relative to  *)
(* topDir, so topDir itself is <<>>.                                        *)
(***************************************************************************)
EXTENDS Naturals, Sequences, FiniteSets, TLC

VARIABLES
    kind,      \* filesystem: what sits at each path of the universe
    kfile,     \* filesystem: parsed content of <path>/kustomization.yaml
    pc,        \* main: "main" | "rendered" | "exit1" | "crashed"
    roots,     \* main: result of findKustomizationDirs
    rootIdx,   \* main: position of the range loop over roots
    ret,       \* main: value returned by the readDir call of the loop body
    stack,     \* call stack of readDir activations
    rootDir,   \* global var rootDir (the DirNode tree)
    edges,     \* global var edges
    logs,      \* calls made on the zap logger
    stdout,    \* lines printed with fmt.Print*
    failed,    \* history: directories for which readDir returned an error
    appended   \* history: arguments appendToDirTree has been called with

vars == <<kind, kfile, pc, roots, rootIdx, ret, stack, rootDir, edges,
          logs, stdout, failed, appended>>

(***************************************************************************)
(* Bounds                                                                  *)
(***************************************************************************)
\* total number of reference entries over all kustomization.yaml files
MaxEntries == 2
\* readDir activations the goroutine stack holds before it overflows
MaxDepth == 4
\* appendToDirTree calls of the tree-only specification
MaxCalls == 3

(***************************************************************************)
(* Universe of the filesystem                                              *)
(***************************************************************************)
Paths == { <<"a", "b">>, <<"base">>, <<"overlay">> }

\* lexical order in which filepath.Walk visits the universe
WalkOrder == << <<"a", "b">>, <<"base">>, <<"overlay">> >>

\* absent: nothing there; file: a plain file; dir: a directory without
\* kustomization.yaml; overlay: a directory with a readable one; broken: a
\* directory whose kustomization.yaml does not unmarshal
Kinds == { "absent", "file", "dir", "overlay", "broken" }

\* the lists whose directory entries are traversed, and the four others
GraphLists == { "resources", "components" }

FileLists == { "patches", "replacements", "transformers", "configurations" }

\* the paths an entry of the four other lists may name
FileTargets == { <<"base">> }

EmptyKustomization ==
    [ resources |-> <<>>, components |-> <<>>, patches |-> <<>>,
      replacements |-> <<>>, transformers |-> <<>>, configurations |-> <<>> ]

SeqsUpTo(S, n) == UNION { [1..m -> S] : m \in 0..n }

Last(s) == s[Len(s)]
Front(s) == SubSeq(s, 1, Len(s) - 1)

(***************************************************************************)
(* path/filepath and strings                                               *)
(***************************************************************************)
RECURSIVE CleanAcc(_, _)
CleanAcc(acc, s) ==
    IF s = <<>> THEN acc
    ELSE IF Head(s) = "." THEN CleanAcc(acc, Tail(s))
    ELSE IF Head(s) = ".." /\ acc # <<>> /\ Last(acc) # ".."
         THEN CleanAcc(Front(acc), Tail(s))
    ELSE CleanAcc(Append(acc, Head(s)), Tail(s))

\* filepath.Clean on a relative path
Clean(s) == CleanAcc(<<>>, s)

\* filepath.Join(a, b)
Join(a, b) == Clean(a \o b)

\* filepath.Rel(*topDir, dir): dir is already kept relative to topDir
Rel(dir) == Clean(dir)

\* filepath.Dir of a cleaned relative path
Dir(s) == IF Len(s) <= 1 THEN <<>> ELSE Front(s)

\* filepath.Base of a cleaned relative path
Base(s) == IF s = <<>> THEN "." ELSE Last(s)

\* strings.Split(s, "/"): the path "." is the one-element list <<".">>
Split(s) == IF s = <<>> THEN <<".">> ELSE s

\* the reference an overlay at directory d writes to name path t
RelRef(d, t) == [i \in 1..Len(d) |-> ".."] \o t

(***************************************************************************)
(* filesys.FileSystem                                                      *)
(***************************************************************************)
\* intermediate directories of the universe that exist with their content
IsAncestorDir(p) ==
    \E q \in Paths : /\ kind[q] # "absent"
                     /\ Len(q) > Len(p)
                     /\ SubSeq(q, 1, Len(p)) = p

Exists(p) == \/ p \in Paths /\ kind[p] # "absent"
             \/ IsAncestorDir(p)

IsDirAcceptsFiles(p) == Exists(p)

IsDir(p) == \/ p \in Paths /\ kind[p] \in { "dir", "overlay", "broken" }
            \/ IsAncestorDir(p)

\* readKustomizationFile succeeds
Readable(p) == p \in Paths /\ kind[p] = "overlay"

\* findKustomizationDirs: directories holding a file named kustomization.yaml
HasKustomizationFile(p) == p \in Paths /\ kind[p] \in { "overlay", "broken" }

FindKustomizationDirs == SelectSeq(WalkOrder, HasKustomizationFile)

(***************************************************************************)
(* util.Contains / slices.Contains                                         *)
(***************************************************************************)
ContainsSkipsLast(list, elem) == \E i \in 1..(Len(list) - 1) : list[i] = elem

Contains(list, elem) == \E i \in 1..Len(list) : list[i] = elem

(***************************************************************************)
(* appendToDirTree.  The DirNode tree is a function from the path of a     *)
(* node (the child names from rootDir down to it) to its Kustomizations;   *)
(* its domain is the set of nodes that exist, <<>> being rootDir itself.   *)
(***************************************************************************)
EmptyTree == [n \in { <<>> } |-> <<>>]

Prefixes(s) == { SubSeq(s, 1, i) : i \in 0..Len(s) }

\* the loop over parentDirs: a missing child is created empty
WithNodes(tree, parentDirs) ==
    [n \in (DOMAIN tree) \cup Prefixes(parentDirs) |->
        IF n \in DOMAIN tree THEN tree[n] ELSE <<>>]

AppendAlways(list, elem) == Append(list, elem)

\* if !slices.Contains(d.Kustomizations, basename) { append }
AppendIfAbsent(list, elem) ==
    IF ~Contains(list, elem) THEN Append(list, elem) ELSE list

\* strings.Trim(dir, "/") removes nothing from a cleaned relative path
AppendToDirTree(tree, dir) ==
    LET parentDirs == Split(Dir(dir))
        basename   == Base(dir)
        t          == WithNodes(tree, parentDirs)
    IN  [t EXCEPT ![parentDirs] = AppendIfAbsent(t[parentDirs], basename)]

(***************************************************************************)
(* readDir                                                                 *)
(***************************************************************************)
LogRec(level, fmt, arg, arg2) ==
    [level |-> level, fmt |-> fmt, arg |-> arg, arg2 |-> arg2]

\* nextPath := filepath.Join(dir, v) for every entry of a list
NextPaths(dir, list) == [i \in 1..Len(list) |-> Join(dir, list[i])]

IsNextDir(p) == Exists(p) /\ IsDir(p)

\* the entries of resources, then of components, that exist and are
\* directories
NextDirs(dir, k) ==
    SelectSeq(NextPaths(dir, k.resources), IsNextDir)
        \o SelectSeq(NextPaths(dir, k.components), IsNextDir)

\* the logger calls of one of the six loops: a trace line per entry, and a
\* line at missLevel for an entry whose path does not exist
RECURSIVE LoopLogs(_, _, _, _, _)
LoopLogs(dir, list, traceFmt, missLevel, missFmt) ==
    IF list = <<>> THEN <<>>
    ELSE LET v        == Head(list)
             nextPath == Join(dir, v)
         IN  << LogRec("debug", traceFmt, v, <<>>) >>
             \o (IF ~Exists(nextPath)
                 THEN << LogRec(missLevel, missFmt, nextPath, <<>>) >>
                 ELSE <<>>)
             \o LoopLogs(dir, Tail(list), traceFmt, missLevel, missFmt)

ResourceLogs(dir, k) ==
    LoopLogs(dir, k.resources, "- (resource) %s", "debug", "/* %s is not found */")

ComponentLogsDebug(dir, k) ==
    LoopLogs(dir, k.components, "- (component) %s", "debug", "/* %s is not found */")

ComponentLogs(dir, k) ==
    LoopLogs(dir, k.components, "- (component) %s", "warn", "%s is not found")

FileLoopLogs(dir, k) ==
    LoopLogs(dir, k.patches, "- (patch) %s", "warn", "%s is not found")
    \o LoopLogs(dir, k.replacements, "- (replacement) %s", "warn", "%s is not found")
    \o LoopLogs(dir, k.transformers, "- (transformer) %s", "warn", "%s is not found")
    \o LoopLogs(dir, k.configurations, "- (configuration) %s", "warn", "%s is not found")

Edge(src, dst) == [Src |-> src, Dst |-> dst]

\* the loop that appends one edge per next directory, unless already there
RECURSIVE AddEdges(_, _, _)
AddEdges(es, rel, nextDirs) ==
    IF nextDirs = <<>> THEN es
    ELSE LET newEdge == Edge(rel, Rel(Head(nextDirs)))
         IN  AddEdges(IF ~Contains(es, newEdge) THEN Append(es, newEdge) ELSE es,
                      rel, Tail(nextDirs))

RECURSIVE EdgeLogs(_, _)
EdgeLogs(rel, nextDirs) ==
    IF nextDirs = <<>> THEN <<>>
    ELSE << LogRec("debug", "[edge] %s -> %s", rel, Rel(Head(nextDirs))) >>
         \o EdgeLogs(rel, Tail(nextDirs))

Frame(dir) == [dir |-> dir, state |-> "enter", nextDirs |-> <<>>, i |-> 1]

Top == stack[Len(stack)]

HeaderLog(dir) == LogRec("debug", "----- %s -----", dir, <<>>)

FsUnchanged == UNCHANGED <<kind, kfile, roots>>

\* a return of the top activation: the value reaches main only from the
\* outermost call; the recursive call site drops it
Return(value) ==
    /\ stack' = Front(stack)
    /\ ret' = IF Len(stack) = 1 THEN value ELSE ret

\* readKustomizationFile fails: return err
ReadDirFail ==
    /\ pc = "main"
    /\ stack # <<>>
    /\ Top.state = "enter"
    /\ ~Readable(Top.dir)
    /\ Return("err")
    /\ logs' = Append(logs, HeaderLog(Top.dir))
    /\ failed' = failed \cup { Top.dir }
    /\ FsUnchanged
    /\ UNCHANGED <<pc, rootIdx, rootDir, edges, stdout, appended>>

\* from the read of the file to the end of the loop that appends the edges
ReadDirBody ==
    /\ pc = "main"
    /\ stack # <<>>
    /\ Top.state = "enter"
    /\ Readable(Top.dir)
    /\ LET dir      == Top.dir
           k        == kfile[dir]
           rel      == Rel(dir)
           nextDirs == NextDirs(dir, k)
       IN  /\ rootDir' = AppendToDirTree(rootDir, rel)
           /\ appended' = Append(appended, rel)
           /\ logs' = logs \o << HeaderLog(dir) >> \o ResourceLogs(dir, k)
                          \o ComponentLogs(dir, k) \o FileLoopLogs(dir, k)
                          \o EdgeLogs(rel, nextDirs)
           /\ edges' = AddEdges(edges, rel, nextDirs)
           /\ stack' = [stack EXCEPT ![Len(stack)] =
                           [dir |-> dir, state |-> "loop",
                            nextDirs |-> nextDirs, i |-> 1]]
    /\ FsUnchanged
    /\ UNCHANGED <<pc, rootIdx, ret, stdout, failed>>

\* the recursion is made on dir where nextDir is meant
ReadDirRecurseSameDir ==
    /\ pc = "main"
    /\ stack # <<>>
    /\ Top.state = "loop"
    /\ Top.i <= Len(Top.nextDirs)
    /\ Len(stack) < MaxDepth
    /\ stack' = Append([stack EXCEPT ![Len(stack)].i = @ + 1], Frame(Top.dir))
    /\ FsUnchanged
    /\ UNCHANGED <<pc, rootIdx, ret, rootDir, edges, logs, stdout, failed, appended>>

\* the recursion skips a directory that is being processed already
ReadDirRecurseSkipsActive ==
    /\ pc = "main"
    /\ stack # <<>>
    /\ Top.state = "loop"
    /\ Top.i <= Len(Top.nextDirs)
    /\ Len(stack) < MaxDepth
    /\ stack' = IF \E j \in 1..Len(stack) : stack[j].dir = Top.nextDirs[Top.i]
                THEN [stack EXCEPT ![Len(stack)].i = @ + 1]
                ELSE Append([stack EXCEPT ![Len(stack)].i = @ + 1],
                            Frame(Top.nextDirs[Top.i]))
    /\ FsUnchanged
    /\ UNCHANGED <<pc, rootIdx, ret, rootDir, edges, logs, stdout, failed, appended>>

\* for _, nextDir := range nextDirs { readDir(fs, nextDir) }
ReadDirRecurse ==
    /\ pc = "main"
    /\ stack # <<>>
    /\ Top.state = "loop"
    /\ Top.i <= Len(Top.nextDirs)
    /\ Len(stack) < MaxDepth
    /\ stack' = Append([stack EXCEPT ![Len(stack)].i = @ + 1],
                       Frame(Top.nextDirs[Top.i]))
    /\ FsUnchanged
    /\ UNCHANGED <<pc, rootIdx, ret, rootDir, edges, logs, stdout, failed, appended>>

\* the recursion outgrows the goroutine stack: the runtime ends the process
StackOverflow ==
    /\ pc = "main"
    /\ stack # <<>>
    /\ Top.state = "loop"
    /\ Top.i <= Len(Top.nextDirs)
    /\ Len(stack) >= MaxDepth
    /\ pc' = "crashed"
    /\ FsUnchanged
    /\ UNCHANGED <<rootIdx, ret, stack, rootDir, edges, logs, stdout, failed, appended>>

\* return nil
ReadDirReturn ==
    /\ pc = "main"
    /\ stack # <<>>
    /\ Top.state = "loop"
    /\ Top.i > Len(Top.nextDirs)
    /\ Return("nil")
    /\ FsUnchanged
    /\ UNCHANGED <<pc, rootIdx, rootDir, edges, logs, stdout, failed, appended>>

(***************************************************************************)
(* printGraphNodes, printGraphEdges                                        *)
(***************************************************************************)
Line(t, indentLevel, id, label, dst) ==
    [t |-> t, indent |-> 2 * indentLevel, id |-> id, label |-> label, dst |-> dst]

\* regexp "[\\-\\.()]" replaced by "_", on the names a child can have
Sanitize(name) ==
    CASE name = "(root)" -> "_root_"
      [] name = "."      -> "_"
      [] name = ".."     -> "__"
      [] OTHER           -> name

\* if childName == "." { childName = "(root)" }
ClusterName(c) == IF c = "." THEN "(root)" ELSE c

RECURSIVE PrintGraphNodes(_, _, _, _, _)
RECURSIVE PrintChildren(_, _, _, _, _, _)

\* the loop over node.Children, cs being the children still to come in the
\* order the map iteration yields them
PrintChildren(tree, np, dirName, indentLevel, ord, cs) ==
    IF cs = <<>> THEN <<>>
    ELSE LET childName == ClusterName(Head(cs))
             next      == indentLevel + 1
         IN  << Line("blank", 0, <<>>, "", <<>>),
                Line("subgraph", indentLevel, <<>>, Sanitize(childName), <<>>),
                Line("label", next, <<>>, childName, <<>>),
                Line("fillcolor", next, <<>>, "lightgray", <<>>),
                Line("style", next, <<>>, "filled", <<>>),
                Line("color", next, <<>>, "white", <<>>),
                Line("penwidth", next, <<>>, "3", <<>>),
                Line("node-attrs", next, <<>>, "style=filled,color=white", <<>>) >>
             \o PrintGraphNodes(tree, Append(np, Head(cs)),
                                Join(dirName, << childName >>), next, ord)
             \o << Line("end", indentLevel, <<>>, "", <<>>) >>
             \o PrintChildren(tree, np, dirName, indentLevel, ord, Tail(cs))

PrintGraphNodes(tree, np, dirName, indentLevel, ord) ==
    LET ks == tree[np]
        IsChild(c) == Append(np, c) \in DOMAIN tree
    IN  [i \in 1..Len(ks) |->
            Line("node", indentLevel, Join(dirName, << ks[i] >>), ks[i], <<>>)]
        \o PrintChildren(tree, np, dirName, indentLevel, ord, SelectSeq(ord, IsChild))

PrintGraphEdges(es, indentLevel) ==
    [i \in 1..Len(es) |-> Line("edge", indentLevel, es[i].Src, "", es[i].Dst)]

\* the names children of the tree have, and the orders a range over a map
\* may yield them in
ChildNames(tree) == { Last(n) : n \in (DOMAIN tree) \ { <<>> } }

Orders(S) == { f \in [1..Cardinality(S) -> S] :
                 \A i, j \in 1..Cardinality(S) : f[i] = f[j] => i = j }

Document(tree, es, ord) ==
    << Line("digraph", 0, <<>>, "G", <<>>) >>
    \o PrintGraphNodes(tree, <<>>, <<>>, 1, ord)
    \o PrintGraphEdges(es, 1)
    \o << Line("close", 0, <<>>, "", <<>>) >>

(***************************************************************************)
(* main                                                                    *)
(***************************************************************************)
\* the range loop calls readDir on the next directory found
MainCallReadDir ==
    /\ pc = "main"
    /\ stack = <<>>
    /\ ret = "none"
    /\ rootIdx <= Len(roots)
    /\ stack' = << Frame(roots[rootIdx]) >>
    /\ FsUnchanged
    /\ UNCHANGED <<pc, rootIdx, ret, rootDir, edges, logs, stdout, failed, appended>>

MainIgnoreErr ==
    /\ pc = "main"
    /\ stack = <<>>
    /\ ret # "none"
    /\ rootIdx' = rootIdx + 1
    /\ ret' = "none"
    /\ FsUnchanged
    /\ UNCHANGED <<pc, stack, rootDir, edges, logs, stdout, failed, appended>>

\* if err != nil { fmt.Println(err); os.Exit(1) }
MainCheckErr ==
    /\ pc = "main"
    /\ stack = <<>>
    /\ ret # "none"
    /\ IF ret = "err"
       THEN /\ stdout' = Append(stdout, Line("error", 0, roots[rootIdx], "", <<>>))
            /\ pc' = "exit1"
            /\ UNCHANGED rootIdx
       ELSE /\ rootIdx' = rootIdx + 1
            /\ UNCHANGED <<stdout, pc>>
    /\ ret' = "none"
    /\ FsUnchanged
    /\ UNCHANGED <<stack, rootDir, edges, logs, failed, appended>>

\* the four statements after the loop
Render ==
    /\ pc = "main"
    /\ stack = <<>>
    /\ ret = "none"
    /\ rootIdx > Len(roots)
    /\ \E ord \in Orders(ChildNames(rootDir)) :
           stdout' = stdout \o Document(rootDir, edges, ord)
    /\ pc' = "rendered"
    /\ FsUnchanged
    /\ UNCHANGED <<rootIdx, ret, stack, rootDir, edges, logs, failed, appended>>

(***************************************************************************)
(* Initial states: every filesystem over the universe                      *)
(***************************************************************************)
\* one entry of one list of one kustomization.yaml, naming a path
Placements(k) ==
    [owner : { p \in Paths : k[p] = "overlay" }, list : GraphLists, target : Paths]
    \cup [owner : { p \in Paths : k[p] = "overlay" }, list : FileLists,
          target : FileTargets]

EntriesOf(pl, p, l) ==
    LET IsMine(e) == e.owner = p /\ e.list = l
        sel == SelectSeq(pl, IsMine)
    IN  [i \in 1..Len(sel) |-> RelRef(p, sel[i].target)]

Build(pl) ==
    [p \in Paths |->
        [ resources      |-> EntriesOf(pl, p, "resources"),
          components     |-> EntriesOf(pl, p, "components"),
          patches        |-> EntriesOf(pl, p, "patches"),
          replacements   |-> EntriesOf(pl, p, "replacements"),
          transformers   |-> EntriesOf(pl, p, "transformers"),
          configurations |-> EntriesOf(pl, p, "configurations") ]]

Init ==
    /\ \E k \in [Paths -> Kinds] :
         \E pl \in SeqsUpTo(Placements(k), MaxEntries) :
            /\ kind = k
            /\ kfile = Build(pl)
    /\ roots = FindKustomizationDirs
    /\ pc = "main"
    /\ rootIdx = 1
    /\ ret = "none"
    /\ stack = <<>>
    /\ rootDir = EmptyTree
    /\ edges = <<>>
    /\ logs = <<>>
    /\ stdout = <<>>
    /\ failed = {}
    /\ appended = <<>>

Next ==
    \/ MainCallReadDir
    \/ MainCheckErr
    \/ ReadDirFail
    \/ ReadDirBody
    \/ ReadDirRecurse
    \/ StackOverflow
    \/ ReadDirReturn
    \/ Render

Spec == Init /\ [][Next]_vars

\* the program is sequential: it takes its next step whenever it has one
FairSpec == Spec /\ WF_vars(Next)

(***************************************************************************)
(* appendToDirTree alone, called with any identifiers in any order         *)
(***************************************************************************)
Identifiers ==
    { <<>>, <<"a">>, <<"base">>, <<"a", "b">>, <<"a", "c">>,
      <<"a", "b", "c">>, <<"..", "x">> }

InitTree ==
    /\ kind = [p \in Paths |-> "absent"]
    /\ kfile = [p \in Paths |-> EmptyKustomization]
    /\ roots = <<>>
    /\ pc = "tree"
    /\ rootIdx = 1
    /\ ret = "none"
    /\ stack = <<>>
    /\ rootDir = EmptyTree
    /\ edges = <<>>
    /\ logs = <<>>
    /\ stdout = <<>>
    /\ failed = {}
    /\ appended = <<>>

AppendCall(id) ==
    /\ pc = "tree"
    /\ Len(appended) < MaxCalls
    /\ rootDir' = AppendToDirTree(rootDir, id)
    /\ appended' = Append(appended, id)
    /\ FsUnchanged
    /\ UNCHANGED <<pc, rootIdx, ret, stack, edges, logs, stdout, failed>>

NextTree == \E id \in Identifiers : AppendCall(id)

SpecTree == InitTree /\ [][NextTree]_vars

(***************************************************************************)
(* Vocabulary of the properties                                            *)
(***************************************************************************)
Range(s) == { s[i] : i \in 1..Len(s) }

Count(s, x) == Cardinality({ i \in 1..Len(s) : s[i] = x })

\* the parent segments and the basename of an Overlay Identifier, as the
\* data model of the specification describes them
ParentSegs(id) == IF Len(id) <= 1 THEN << "." >> ELSE Front(id)

LeafName(id) == IF id = <<>> THEN "." ELSE Last(id)

Registered(id) ==
    /\ ParentSegs(id) \in DOMAIN rootDir
    /\ \E i \in 1..Len(rootDir[ParentSegs(id)]) :
          rootDir[ParentSegs(id)][i] = LeafName(id)

IsDirectoryOnDisk(p) == p \in Paths /\ kind[p] \in { "dir", "overlay", "broken" }

IsAbsentOnDisk(p) == p \in Paths /\ kind[p] = "absent"

GraphEntries(d) == Range(kfile[d].resources) \cup Range(kfile[d].components)

OtherEntries(d) ==
    Range(kfile[d].patches) \cup Range(kfile[d].replacements)
        \cup Range(kfile[d].transformers) \cup Range(kfile[d].configurations)

\* overlay d lists q as a resource or component and q is a directory
RefEdge(d, q) ==
    /\ kind[d] = "overlay"
    /\ IsDirectoryOnDisk(q)
    /\ \E v \in GraphEntries(d) : Clean(d \o v) = q

\* the directories reached from d by following at most n references
ReachedWithin[n \in 0..Cardinality(Paths), d \in Paths] ==
    IF n = 0 THEN { d }
    ELSE ReachedWithin[n - 1, d]
            \cup { q \in Paths : \E m \in ReachedWithin[n - 1, d] : RefEdge(m, q) }

Reaches(d, q) ==
    \E m \in ReachedWithin[Cardinality(Paths) - 1, d] : RefEdge(m, q)

OnCycle(d) == d \in Paths /\ Reaches(d, d)

Acyclic == \A d \in Paths : ~OnCycle(d)

\* the readDir bodies that have run are those that registered their overlay
BodyRan(d) == d \in Range(appended)

StackRepeats ==
    \E i, j \in 1..Len(stack) : i < j /\ stack[i].dir = stack[j].dir

\* readKustomizationFile succeeds on every discovered root
AllRootsReadable == \A i \in 1..Len(roots) : kind[roots[i]] = "overlay"

\* zap.NewProduction, the logger of the default --loglevel, drops debug
EmittedAtDefaultVerbosity(r) == r.level \in { "info", "warn", "error" }

GraphLines == { i \in 1..Len(stdout) : stdout[i].t # "error" }

NodeLines == { i \in 1..Len(stdout) : stdout[i].t = "node" }

(***************************************************************************)
(* C1: the edge collection never holds two edges with the same (source,    *)
(* destination) pair, whatever the roots, the reference graph, the number  *)
(* of times an overlay is reached and the repetitions inside one list; an  *)
(* edge is appended only when no equal edge is present.                    *)
(***************************************************************************)
C1_NoDuplicateEdges ==
    \A i, j \in 1..Len(edges) :
        (edges[i].Src = edges[j].Src /\ edges[i].Dst = edges[j].Dst) => i = j

\* an edge and its reverse coexist, after an overlay with an outgoing edge
\* has been processed a second time
C1_Witness ==
    /\ \E i, j \in 1..Len(edges) :
          /\ edges[i].Src # edges[i].Dst
          /\ edges[j].Src = edges[i].Dst
          /\ edges[j].Dst = edges[i].Src
    /\ \E i \in 1..Len(edges) : Count(appended, edges[i].Src) >= 2

(***************************************************************************)
(* C2: every edge (s, d) comes from an entry of the resources or           *)
(* components list of overlay s that resolves to an existing directory,    *)
(* and so does every traversal child; an absent path, a plain file and the *)
(* entries of the four other lists produce none, and an absent path is     *)
(* never registered in the directory tree.                                 *)
(***************************************************************************)
C2_EdgesOnlyFromDirectoryRefs ==
    /\ \A i \in 1..Len(edges) :
          \E d \in Paths :
             /\ Clean(d) = edges[i].Src
             /\ kind[d] = "overlay"
             /\ \E v \in GraphEntries(d) :
                   /\ IsDirectoryOnDisk(Clean(d \o v))
                   /\ Clean(d \o v) = edges[i].Dst
    /\ \A i \in 1..Len(stack) :
          \A n \in 1..Len(stack[i].nextDirs) :
             /\ IsDirectoryOnDisk(stack[i].nextDirs[n])
             /\ \E v \in GraphEntries(stack[i].dir) :
                   Clean(stack[i].dir \o v) = stack[i].nextDirs[n]
    /\ \A p \in Paths : IsAbsentOnDisk(p) => ~Registered(p)

\* a rendered run in which a processed overlay lists a directory in one of
\* the four other lists, and a plain file or an absent path as a resource
\* or component, none of which gave an edge
C2_Witness ==
    /\ pc = "rendered"
    /\ \E d \in Paths :
          /\ BodyRan(d)
          /\ \E v \in OtherEntries(d) :
                /\ IsDirectoryOnDisk(Clean(d \o v))
                /\ ~Contains(edges, Edge(d, Clean(d \o v)))
          /\ \E v \in GraphEntries(d) :
                /\ ~IsDirectoryOnDisk(Clean(d \o v))
                /\ ~Contains(edges, Edge(d, Clean(d \o v)))

(***************************************************************************)
(* C3: a failure to read the configuration of any directory the traversal  *)
(* processes, root or child at any depth, is fatal: after it the graph is  *)
(* never rendered.                                                         *)
(***************************************************************************)
C3_AnyReadFailureIsFatal == pc = "rendered" => failed = {}

(***************************************************************************)
(* C4 as stated: on a filesystem whose directory references are acyclic    *)
(* the run ends with the renderer having run (it ends in no other way).    *)
(***************************************************************************)
C4_AcyclicAlwaysRenders == Acyclic => pc \notin { "exit1", "crashed" }

(***************************************************************************)
(* C4 as amended: on a filesystem whose directory references are acyclic   *)
(* the traversal terminates, overlays read several times included: the     *)
(* renderer runs when every discovered root is readable, and the run ends  *)
(* with exit status 1 otherwise.  Every run leaves the loop of main (the   *)
(* liveness part), and on an acyclic filesystem it leaves it neither by    *)
(* a stack overflow nor by the other of the two ends.                      *)
(***************************************************************************)
C4_AcyclicTerminates ==
    /\ <>(pc # "main")
    /\ [](Acyclic => pc # "crashed")
    /\ []((Acyclic /\ AllRootsReadable) => pc # "exit1")
    /\ []((Acyclic /\ ~AllRootsReadable) => pc # "rendered")

\* an acyclic filesystem whose run rendered after reading one overlay three
\* times
C4_Witness ==
    /\ Acyclic
    /\ pc = "rendered"
    /\ \E d \in Paths : Count(appended, d) >= 3

(***************************************************************************)
(* C5: once readDir is active on an overlay that lies on a cycle of        *)
(* readable overlays, that activation never returns; a directory entered   *)
(* again while active gets the same children, the edge collection no       *)
(* longer changes from then on, and the renderer is never reached.         *)
(***************************************************************************)
C5_CycleNeverReturns ==
    /\ [][\A i \in 1..Len(stack) :
            OnCycle(stack[i].dir) =>
                /\ Len(stack') >= i
                /\ stack'[i].dir = stack[i].dir]_vars
    /\ [][StackRepeats => edges' = edges]_vars
    /\ [](\A i, j \in 1..Len(stack) :
            (stack[i].dir = stack[j].dir /\ stack[i].state = "loop"
                /\ stack[j].state = "loop")
            => stack[i].nextDirs = stack[j].nextDirs)
    /\ []((\E i \in 1..Len(stack) : OnCycle(stack[i].dir)) => pc # "rendered")
    /\ [](pc = "rendered" => \A i \in 1..Len(roots) : ~OnCycle(roots[i]))

\* two overlays that list each other as resources, the recursion having
\* gone round the cycle until the stack ran out
C5_Witness ==
    /\ pc = "crashed"
    /\ StackRepeats
    /\ \E a, b \in Paths :
          /\ a # b
          /\ kind[a] = "overlay" /\ kind[b] = "overlay"
          /\ \E v \in Range(kfile[a].resources) : Clean(a \o v) = b
          /\ \E v \in Range(kfile[b].resources) : Clean(b \o v) = a
          /\ stack[1].dir = a

(***************************************************************************)
(* C6: the identifier of every node line the renderer emits is the Overlay *)
(* Identifier of a registered overlay, and every registered overlay has    *)
(* its node line, so that edge lines connect rendered nodes.               *)
(***************************************************************************)
C6_NodeIdsAreIdentifiers ==
    pc = "rendered" =>
        { stdout[i].id : i \in NodeLines } = Range(appended)

(***************************************************************************)
(* C7: after any sequence of appendToDirTree calls every registered        *)
(* identifier is found by descending through its parent segments (the      *)
(* sentinel "." when it has none) to a node that lists its basename        *)
(* exactly once; no other node and no other list entry exists; and         *)
(* registering an identifier again changes nothing.                        *)
(***************************************************************************)
C7_TreeMirrorsIdentifiers ==
    /\ [](\A k \in 1..Len(appended) :
            /\ \A j \in 0..Len(ParentSegs(appended[k])) :
                  SubSeq(ParentSegs(appended[k]), 1, j) \in DOMAIN rootDir
            /\ Count(rootDir[ParentSegs(appended[k])], LeafName(appended[k])) = 1)
    /\ [](\A n \in DOMAIN rootDir :
            /\ \/ n = <<>>
               \/ \E k \in 1..Len(appended) :
                     \E j \in 1..Len(ParentSegs(appended[k])) :
                        n = SubSeq(ParentSegs(appended[k]), 1, j)
            /\ \A i \in 1..Len(rootDir[n]) :
                  \E k \in 1..Len(appended) :
                     /\ ParentSegs(appended[k]) = n
                     /\ LeafName(appended[k]) = rootDir[n][i])
    /\ [][(Len(appended') = Len(appended) + 1
            /\ appended'[Len(appended')] \in Range(appended))
           => rootDir' = rootDir]_vars

\* a/b/c registered twice and an identifier without parent segment
C7_Witness ==
    /\ Count(appended, <<"a", "b", "c">>) = 2
    /\ <<"base">> \in Range(appended)
    /\ rootDir[<<"a", "b">>] = << "c" >>
    /\ rootDir[<< "." >>] = << "base" >>

(***************************************************************************)
(* C8: graph lines are on standard output only once readDir has returned   *)
(* nil for every discovered root, and then they are the document of the    *)
(* final tree and edges; a run that exits on a root's error has printed    *)
(* the error and no graph line.                                            *)
(***************************************************************************)
C8_GraphOnlyAfterAllRoots ==
    /\ GraphLines # {} =>
          /\ pc = "rendered"
          /\ rootIdx > Len(roots)
          /\ \A i \in 1..Len(roots) : roots[i] \notin failed
          /\ \E ord \in Orders(ChildNames(rootDir)) :
                stdout = Document(rootDir, edges, ord)
    /\ pc = "exit1" =>
          /\ GraphLines = {}
          /\ Len(stdout) = 1
          /\ roots[rootIdx] \in failed

\* an exit on a later root's error after earlier roots filled the tree and
\* the edge collection
C8_Witness ==
    /\ pc = "exit1"
    /\ edges # <<>>
    /\ appended # <<>>
    /\ rootIdx > 1

C10_EdgeEndpointsRegistered ==
    pc = "rendered" =>
        \A i \in 1..Len(edges) :
            Registered(edges[i].Src) /\ Registered(edges[i].Dst)

=============================================================================
